---- MODULE Spec2Model ----
(***************************************************************************)
(* Model of the ESLint rule prefer-inline-type-parameters                  *)
(* (src/lib/prefer-inline-type-parameters.js).                             *)
(*                                                                         *)
(* The rule is run by ESLint on one source file: the parser turns the      *)
(* text into a syntax tree, the traversal calls the rule's listeners in    *)
(* document order, "Program:exit" reports, and ESLint's fixer applies a    *)
(* reported fix to the text and lints the result again.                    *)
(*                                                                         *)
(* The source text is a sequence of units: one unit stands for a run of    *)
(* characters without a line terminator (a word, a punctuator, a comment), *)
(* and the units "\n" and "\r" are the line terminator characters.         *)
(* Offsets and ranges count units, from 0, end exclusive, as the parser's  *)
(* ranges count characters.                                                *)
(***************************************************************************)
EXTENDS Integers, Sequences, FiniteSets, TLC

\* Most top-level statements a generated source file has.
MaxStmts == 2

\* Most lint passes ESLint's fixer makes over one file (first run included).
MaxPasses == 2

\* Names of declared types that the generated files use.
TypeNames == {"P", "Q"}

LF == "\n"
CR == "\r"

(***************************************************************************)
(* Syntax tree nodes, as typescript-estree builds them.  A tree is a       *)
(* sequence of nodes in traversal (document, pre-) order; a node refers to *)
(* other nodes by their index, 0 standing for null/undefined.  Node 1 is   *)
(* the Program.  Identifier nodes that carry no type annotation (the name  *)
(* of a function, the key of a member, the id of a declaration) are not    *)
(* kept as nodes: the rule reads only their name, kept in "name".          *)
(***************************************************************************)
Node(type, s, e) ==
  [type |-> type, parent |-> 0, range |-> <<s, e>>, name |-> "",
   typeNameType |-> "", typeParameters |-> FALSE, params |-> <<>>,
   init |-> 0, typeAnnotation |-> 0, body |-> 0]

\* A subtree (root first, parent 0) moved to sit after `off` other nodes,
\* its root hanging under node `par`.
Reloc(ns, off, par) ==
  [i \in 1..Len(ns) |->
     [ns[i] EXCEPT
        !.parent = IF @ = 0 THEN par ELSE @ + off,
        !.params = [j \in 1..Len(@) |-> @[j] + off],
        !.init = IF @ = 0 THEN 0 ELSE @ + off,
        !.typeAnnotation = IF @ = 0 THEN 0 ELSE @ + off,
        !.body = IF @ = 0 THEN 0 ELSE @ + off]]

\* The tree `a` with the subtree `b` appended as a child of a's node `at`.
Under(a, at, b) == a \o Reloc(b, Len(a), at)

Tok(t, p) == IF p >= 1 /\ p <= Len(t) THEN t[p] ELSE "<eof>"

Ok(ns, next) == [ok |-> TRUE, nodes |-> ns, next |-> next]
Fail == [ok |-> FALSE, nodes |-> <<>>, next |-> 0]

\* The one element of a singleton set.  One({ e(x) : x \in {v} }) is e(v) with
\* v computed once.
One(S) == CHOOSE r \in S : TRUE

(***************************************************************************)
(* Types.  T ::= string | P | NS.P | Pick<T> | { m: T } | { /*c*/ m: T }   *)
(*             | () => T | (x: T) => void                                  *)
(***************************************************************************)
RECURSIVE ParseType(_, _)
ParseType(t, p) ==
  LET k == Tok(t, p)
      q == IF Tok(t, p + 1) = "/*c*/" THEN p + 2 ELSE p + 1
  IN
  CASE k = "string" -> Ok(<<Node("TSStringKeyword", p - 1, p)>>, p + 1)
    [] k \in TypeNames ->
         Ok(<<[Node("TSTypeReference", p - 1, p) EXCEPT
                 !.name = k, !.typeNameType = "Identifier"]>>, p + 1)
    [] k = "NS" /\ Tok(t, p + 1) = "." /\ Tok(t, p + 2) \in TypeNames ->
         Ok(<<[Node("TSTypeReference", p - 1, p + 2) EXCEPT
                 !.typeNameType = "TSQualifiedName"]>>, p + 3)
    [] k = "Pick" /\ Tok(t, p + 1) = "<" ->
         One({ IF a.ok /\ Tok(t, a.next) = ">"
               THEN Ok(Under(<<[Node("TSTypeReference", p - 1, a.next) EXCEPT
                                  !.name = "Pick",
                                  !.typeNameType = "Identifier"],
                               [Node("TSTypeParameterInstantiation", p, a.next)
                                  EXCEPT !.parent = 1]>>, 2, a.nodes),
                       a.next + 1)
               ELSE Fail : a \in {ParseType(t, p + 2)} })
    [] k = "{" /\ Tok(t, q) = "m" /\ Tok(t, q + 1) = ":" ->
         One({ IF a.ok /\ Tok(t, a.next) = "}"
               THEN Ok(Under(<<Node("TSTypeLiteral", p - 1, a.next),
                               [Node("TSPropertySignature", q - 1, a.next - 1)
                                  EXCEPT !.parent = 1, !.name = "m",
                                         !.typeAnnotation = 3],
                               [Node("TSTypeAnnotation", q, a.next - 1)
                                  EXCEPT !.parent = 2, !.typeAnnotation = 4]>>,
                             3, a.nodes), a.next + 1)
               ELSE Fail : a \in {ParseType(t, q + 2)} })
    [] k = "(" /\ Tok(t, p + 1) = ")" /\ Tok(t, p + 2) = "=>" ->
         One({ IF a.ok
               THEN Ok(Under(<<Node("TSFunctionType", p - 1, a.next - 1),
                               [Node("TSTypeAnnotation", p + 1, a.next - 1)
                                  EXCEPT !.parent = 1, !.typeAnnotation = 3]>>,
                             2, a.nodes), a.next)
               ELSE Fail : a \in {ParseType(t, p + 3)} })
    [] k = "(" /\ Tok(t, p + 1) = "x" /\ Tok(t, p + 2) = ":" ->
         One({ IF a.ok /\ Tok(t, a.next) = ")" /\ Tok(t, a.next + 1) = "=>"
                  /\ Tok(t, a.next + 2) = "void"
               THEN Ok(Under(<<[Node("TSFunctionType", p - 1, a.next + 2)
                                  EXCEPT !.params = <<2>>],
                               [Node("Identifier", p, a.next - 1)
                                  EXCEPT !.parent = 1, !.name = "x",
                                         !.typeAnnotation = 3],
                               [Node("TSTypeAnnotation", p + 1, a.next - 1)
                                  EXCEPT !.parent = 2, !.typeAnnotation = 4]>>,
                             3, a.nodes)
                         \o <<[Node("TSTypeAnnotation", a.next, a.next + 2)
                                 EXCEPT !.parent = 1,
                                        !.typeAnnotation = Len(a.nodes) + 5],
                              [Node("TSVoidKeyword", a.next + 1, a.next + 2)
                                 EXCEPT !.parent = Len(a.nodes) + 4]>>,
                       a.next + 3)
               ELSE Fail : a \in {ParseType(t, p + 3)} })
    [] OTHER -> Fail

(***************************************************************************)
(* Declarations.  type N [<T>] = T ;     interface N [<T>] { m: T }        *)
(***************************************************************************)
ParseDecl(t, p) ==
  LET g == Tok(t, p + 2) = "<"
      q == IF g THEN p + 5 ELSE p + 2
      head == (Tok(t, p + 1) \in TypeNames)
                /\ (g => (Tok(t, p + 3) = "T" /\ Tok(t, p + 4) = ">"))
  IN
  CASE Tok(t, p) = "type" /\ head /\ Tok(t, q) = "=" ->
         One({ IF a.ok /\ Tok(t, a.next) = ";"
               THEN Ok(Under(<<[Node("TSTypeAliasDeclaration", p - 1, a.next)
                                  EXCEPT !.name = Tok(t, p + 1),
                                         !.typeParameters = g,
                                         !.typeAnnotation = 2]>>, 1, a.nodes),
                       a.next + 1)
               ELSE Fail : a \in {ParseType(t, q + 1)} })
    [] Tok(t, p) = "interface" /\ head /\ Tok(t, q) = "{" ->
         One({ IF a.ok
               THEN Ok(Under(<<[Node("TSInterfaceDeclaration", p - 1,
                                     a.next - 1)
                                  EXCEPT !.name = Tok(t, p + 1),
                                         !.typeParameters = g,
                                         !.body = 2]>>, 1,
                             [a.nodes EXCEPT ![1].type = "TSInterfaceBody"]),
                       a.next)
               ELSE Fail : a \in {ParseType(t, q)} })
    [] OTHER -> Fail

(***************************************************************************)
(* One parameter, up to the closing parenthesis:                           *)
(*   x: T | { x }: T | [ x ]: T | x: T = 0 | (none)                        *)
(***************************************************************************)
IdentifierParam(p, a) ==
  Under(<<[Node("Identifier", p - 1, a.next - 1)
             EXCEPT !.name = "x", !.typeAnnotation = 2],
          [Node("TSTypeAnnotation", p, a.next - 1)
             EXCEPT !.parent = 1, !.typeAnnotation = 3]>>, 2, a.nodes)

ParseParam(t, p) ==
  LET k == Tok(t, p) IN
  CASE k = ")" -> Ok(<<>>, p)
    [] k = "x" /\ Tok(t, p + 1) = ":" ->
         One({ IF ~a.ok THEN Fail
               ELSE IF Tok(t, a.next) = "=" /\ Tok(t, a.next + 1) = "0"
               THEN Ok(Under(<<Node("AssignmentPattern", p - 1, a.next + 1)>>,
                             1, IdentifierParam(p, a))
                         \o <<[Node("Literal", a.next, a.next + 1)
                                 EXCEPT !.parent = 1]>>, a.next + 2)
               ELSE Ok(IdentifierParam(p, a), a.next)
               : a \in {ParseType(t, p + 2)} })
    [] k \in {"{", "["} /\ Tok(t, p + 1) = "x"
         /\ Tok(t, p + 2) = (IF k = "{" THEN "}" ELSE "]")
         /\ Tok(t, p + 3) = ":" ->
         One({ IF a.ok
               THEN Ok(Under(<<[Node(IF k = "{" THEN "ObjectPattern"
                                                ELSE "ArrayPattern",
                                     p - 1, a.next - 1)
                                  EXCEPT !.typeAnnotation = 2],
                               [Node("TSTypeAnnotation", p + 2, a.next - 1)
                                  EXCEPT !.parent = 1, !.typeAnnotation = 3]>>,
                             2, a.nodes), a.next)
               ELSE Fail : a \in {ParseType(t, p + 4)} })
    [] OTHER -> Fail

RECURSIVE ParseStmt(_, _), ParseBody(_, _, _, _, _), ParseFunction(_, _, _, _)

(***************************************************************************)
(* Statements between position p and the token `stop`, appended to `acc`   *)
(* as children of acc's node `at`; line terminators separate them.         *)
(***************************************************************************)
ParseBody(t, p, acc, at, stop) ==
  IF Tok(t, p) = stop THEN Ok(acc, p)
  ELSE IF Tok(t, p) \in {LF, CR} THEN ParseBody(t, p + 1, acc, at, stop)
  ELSE One({ IF s.ok
             THEN ParseBody(t, s.next, Under(acc, at, s.nodes), at, stop)
             ELSE Fail : s \in {ParseStmt(t, p)} })

(***************************************************************************)
(* A function from its opening parenthesis at p:                           *)
(*   ( param ) [: T] [=>] { statements }                                   *)
(* `s` is the offset where the function node starts.                       *)
(***************************************************************************)
\* The body, after the signature: f is the function node with its signature,
\* q0 the position after the signature.
FunctionBody(t, ftype, s, f, q0) ==
  LET q == IF ftype = "ArrowFunctionExpression" THEN q0 + 1 ELSE q0
      blk == Len(f) + 1
  IN IF (ftype = "ArrowFunctionExpression" => Tok(t, q0) = "=>")
        /\ Tok(t, q) = "{"
     THEN One({ IF b.ok
                THEN Ok([b.nodes EXCEPT ![1].range = <<s, b.next>>,
                                        ![1].body = blk,
                                        ![blk].range = <<q - 1, b.next>>],
                        b.next + 1)
                ELSE Fail
                : b \in {ParseBody(t, q + 1,
                                   f \o <<[Node("BlockStatement", q - 1, 0)
                                             EXCEPT !.parent = 1]>>,
                                   blk, "}")} })
     ELSE Fail

\* The return type and the body, after the parameter prm.
FunctionReturn(t, ftype, s, prm) ==
  LET f == IF prm.nodes # <<>>
           THEN Under(<<[Node(ftype, s, 0) EXCEPT !.params = <<2>>]>>, 1,
                      prm.nodes)
           ELSE <<Node(ftype, s, 0)>>
  IN IF Tok(t, prm.next + 1) = ":"
     THEN One({ IF ret.ok
                THEN FunctionBody(t, ftype, s,
                       Under(f \o <<[Node("TSTypeAnnotation", prm.next,
                                          ret.next - 1)
                                       EXCEPT !.parent = 1,
                                              !.typeAnnotation = Len(f) + 2]>>,
                             Len(f) + 1, ret.nodes), ret.next)
                ELSE Fail : ret \in {ParseType(t, prm.next + 2)} })
     ELSE FunctionBody(t, ftype, s, f, prm.next + 1)

ParseFunction(t, p, ftype, s) ==
  IF Tok(t, p) = "("
  THEN One({ IF prm.ok /\ Tok(t, prm.next) = ")"
             THEN FunctionReturn(t, ftype, s, prm)
             ELSE Fail : prm \in {ParseParam(t, p + 1)} })
  ELSE Fail

\* const c: T = 0;   const c: T = () => {};   const { c }: T = ...;
ParseVariable(t, p) ==
  LET pat == Tok(t, p + 1) = "{"
      c == IF pat THEN p + 4 ELSE p + 2        \* position of ":"
  IN IF (IF pat THEN Tok(t, p + 2) = "c" /\ Tok(t, p + 3) = "}"
                ELSE Tok(t, p + 1) = "c")
        /\ Tok(t, c) = ":"
     THEN One({
       LET fn == Tok(t, a.next + 1) = "("
           e == IF fn THEN a.next + 6 ELSE a.next + 2 \* position of ";"
           n == Len(a.nodes) + 4
       IN IF a.ok /\ Tok(t, a.next) = "="
             /\ (IF fn THEN Tok(t, a.next + 2) = ")"
                            /\ Tok(t, a.next + 3) = "=>"
                            /\ Tok(t, a.next + 4) = "{"
                            /\ Tok(t, a.next + 5) = "}"
                       ELSE Tok(t, a.next + 1) = "0")
             /\ Tok(t, e) = ";"
          THEN Ok(Under(<<Node("VariableDeclaration", p - 1, e),
                          [Node("VariableDeclarator", p, e - 1)
                             EXCEPT !.parent = 1, !.init = n + 1],
                          [Node(IF pat THEN "ObjectPattern" ELSE "Identifier",
                                p, a.next - 1)
                             EXCEPT !.parent = 2, !.typeAnnotation = 4,
                                    !.name = IF pat THEN "" ELSE "c"],
                          [Node("TSTypeAnnotation", c - 1, a.next - 1)
                             EXCEPT !.parent = 3, !.typeAnnotation = 5]>>,
                        4, a.nodes)
                    \o (IF fn
                        THEN <<[Node("ArrowFunctionExpression", a.next, e - 1)
                                  EXCEPT !.parent = 2, !.body = n + 2],
                               [Node("BlockStatement", a.next + 3, e - 1)
                                  EXCEPT !.parent = n + 1]>>
                        ELSE <<[Node("Literal", a.next, e - 1)
                                  EXCEPT !.parent = 2]>>), e + 1)
          ELSE Fail
       : a \in {ParseType(t, c + 1)} })
     ELSE Fail

ParseStmt(t, p) ==
  LET k == Tok(t, p)
      dflt == Tok(t, p + 1) = "default"
      fe == Tok(t, p + 3) = "function"
  IN
  CASE k = "export" ->
         One({ IF d.ok
               THEN Ok(Under(<<Node(IF dflt THEN "ExportDefaultDeclaration"
                                            ELSE "ExportNamedDeclaration",
                                    p - 1, d.nodes[1].range[2])>>, 1, d.nodes),
                       d.next)
               ELSE Fail
               : d \in {ParseDecl(t, IF dflt THEN p + 2 ELSE p + 1)} })
    [] k \in {"type", "interface"} -> ParseDecl(t, p)
    [] k = "function" /\ Tok(t, p + 1) = "f" ->
         ParseFunction(t, p + 2, "FunctionDeclaration", p - 1)
    [] k = "const" /\ Tok(t, p + 1) = "f" /\ Tok(t, p + 2) = "=" ->
         One({ IF f.ok /\ Tok(t, f.next) = ";"
               THEN Ok(Under(<<Node("VariableDeclaration", p - 1, f.next),
                               [Node("VariableDeclarator", p, f.next - 1)
                                  EXCEPT !.parent = 1, !.init = 3]>>,
                             2, f.nodes), f.next + 1)
               ELSE Fail
               : f \in {IF fe
                        THEN ParseFunction(t, p + 4, "FunctionExpression", p + 2)
                        ELSE ParseFunction(t, p + 3, "ArrowFunctionExpression",
                                           p + 2)} })
    [] k = "const" /\ Tok(t, p + 1) # "f" -> ParseVariable(t, p)
    [] k = "class" /\ Tok(t, p + 1) = "C" /\ Tok(t, p + 2) = "{"
         /\ Tok(t, p + 3) = "d" /\ Tok(t, p + 4) = ":" ->
         One({ IF a.ok /\ Tok(t, a.next) = ";" /\ Tok(t, a.next + 1) = "}"
               THEN Ok(Under(<<Node("ClassDeclaration", p - 1, a.next + 1),
                               [Node("ClassBody", p + 1, a.next + 1)
                                  EXCEPT !.parent = 1],
                               [Node("PropertyDefinition", p + 2, a.next)
                                  EXCEPT !.parent = 2, !.name = "d",
                                         !.typeAnnotation = 4],
                               [Node("TSTypeAnnotation", p + 3, a.next - 1)
                                  EXCEPT !.parent = 3, !.typeAnnotation = 5]>>,
                             4, a.nodes), a.next + 2)
               ELSE Fail : a \in {ParseType(t, p + 5)} })
    [] k = "namespace" /\ Tok(t, p + 1) = "N" /\ Tok(t, p + 2) = "{" ->
         One({ IF b.ok
               THEN Ok([b.nodes EXCEPT ![1].range = <<p - 1, b.next>>,
                                       ![2].range = <<p + 1, b.next>>],
                       b.next + 1)
               ELSE Fail
               : b \in {ParseBody(t, p + 3,
                                  <<[Node("TSModuleDeclaration", p - 1, 0)
                                       EXCEPT !.name = "N", !.body = 2],
                                    [Node("TSModuleBlock", p + 1, 0)
                                       EXCEPT !.parent = 1]>>, 2, "}")} })
    [] OTHER -> Fail

\* The parser: the tree of a source text, <<>> when the text does not parse.
ParseProgram(t) ==
  One({ IF r.ok THEN r.nodes ELSE <<>>
        : r \in {ParseBody(t, 1, <<Node("Program", 0, Len(t))>>, 1, "<eof>")} })

(***************************************************************************)
(* The source files the rule is run on: up to MaxStmts top-level           *)
(* statements, each followed by its line ending.                           *)
(***************************************************************************)
Lit == <<"{", "m", ":", "string", "}">>
LitC == <<"{", "/*c*/", "m", ":", "string", "}">>

Alias(n, body) == <<"type", n, "=">> \o body \o <<";">>
Iface(n, body) == <<"interface", n>> \o body
FnDecl(sig, inner) == <<"function", "f", "(">> \o sig \o <<"{">> \o inner \o <<"}">>
FnExpr(sig, inner) ==
  <<"const", "f", "=", "function", "(">> \o sig \o <<"{">> \o inner \o <<"}", ";">>
Arrow(sig, inner) ==
  <<"const", "f", "=", "(">> \o sig \o <<"=>", "{">> \o inner \o <<"}", ";">>
Namespace(inner) == <<"namespace", "N", "{">> \o inner \o <<"}">>

\* Declarations of P and Q, with the line endings a file can have after them.
DeclStmts ==
  { Alias("P", LitC) \o <<LF>>,
    Alias("P", LitC) \o <<CR, LF>>,
    Alias("P", LitC) \o <<CR>>,
    Alias("P", LitC),
    Iface("P", Lit) \o <<LF>>,
    <<"type", "P", "<", "T", ">", "=">> \o Lit \o <<";", LF>>,
    <<"interface", "P", "<", "T", ">">> \o Lit \o <<LF>>,
    <<"export">> \o Alias("P", Lit) \o <<LF>>,
    <<"export", "default">> \o Iface("P", Lit) \o <<LF>>,
    Alias("Q", <<"{", "m", ":", "P", "}">>) \o <<LF>> }

\* Functions whose one parameter is annotated with P itself.
ParamSigs ==
  { <<"x", ":", "P", ")">>, <<"{", "x", "}", ":", "P", ")">>,
    <<"[", "x", "]", ":", "P", ")">> }

ParamStmts ==
  { FnDecl(sig, <<>>) \o <<LF>> : sig \in ParamSigs }
    \cup { FnExpr(<<"{", "x", "}", ":", "P", ")">>, <<>>) \o <<LF>>,
           Arrow(<<"x", ":", "P", ")">>, <<>>) \o <<LF>>,
           Arrow(<<"[", "x", "]", ":", "P", ")">>, <<>>) \o <<LF>> }

\* Functions that use P elsewhere in their signature.
NestedStmts ==
  { FnDecl(sig, <<>>) \o <<LF>> :
      sig \in { <<"x", ":", "Pick", "<", "P", ">", ")">>,
                <<"x", ":", "{", "m", ":", "P", "}", ")">>,
                <<"x", ":", "(", ")", "=>", "P", ")">>,
                <<"x", ":", "(", "x", ":", "P", ")", "=>", "void", ")">>,
                <<"x", ":", "NS", ".", "P", ")">>,
                <<"x", ":", "P", "=", "0", ")">>,
                <<")", ":", "P">> } }

\* Uses of P outside function signatures.
OtherStmts ==
  { <<"const", "c", ":", "P", "=", "0", ";", LF>>,
    <<"const", "c", ":", "P", "=", "(", ")", "=>", "{", "}", ";", LF>>,
    <<"const", "{", "c", "}", ":", "P", "=", "(", ")", "=>", "{", "}", ";", LF>>,
    <<"class", "C", "{", "d", ":", "P", ";", "}", LF>>,
    FnDecl(<<")">>, <<"const", "c", ":", "P", "=", "0", ";">>) \o <<LF>> }

\* Declarations of P that are not top-level statements.
InnerDeclStmts ==
  { FnDecl(<<"x", ":", "P", ")">>, Alias("P", Lit)) \o <<LF>>,
    Namespace(Alias("P", Lit)) \o <<LF>>,
    Namespace(<<"export">> \o Alias("P", Lit)) \o <<LF>>,
    Namespace(Alias("P", Lit) \o <<LF>> \o FnDecl(<<"x", ":", "P", ")">>, <<>>))
      \o <<LF>> }

Stmts == DeclStmts \cup ParamStmts \cup NestedStmts \cup OtherStmts
           \cup InnerDeclStmts

RECURSIVE Flatten(_)
Flatten(ss) == IF ss = <<>> THEN <<>> ELSE Head(ss) \o Flatten(Tail(ss))

Files == { Flatten(ss) : ss \in UNION { [1..n -> Stmts] : n \in 0..MaxStmts } }

(***************************************************************************)
(* State.                                                                  *)
(***************************************************************************)
VARIABLES
  text,             \* the source text being linted (sourceCode.getText())
  ast,              \* its syntax tree (sourceCode.ast is node 1)
  cursor,           \* the traversal has entered every node before this one
  typeUsageCount,   \* Map: type name -> number of references seen
  typeDefinitions,  \* Map: type name -> declaration node
  typeReferences,   \* Map: type name -> array of reference nodes
  reports,          \* what context.report was called with, in order
  phase,            \* "traverse" until Program:exit has run, then "done"
  pass,             \* number of the lint pass over this file
  fixedName         \* typeName of the report whose fix made this text

vars == <<text, ast, cursor, typeUsageCount, typeDefinitions, typeReferences,
          reports, phase, pass, fixedName>>

(***************************************************************************)
(* A JavaScript Map: its entries in insertion order.                       *)
(***************************************************************************)
MapHas(m, k) == \E i \in 1..Len(m) : m[i].key = k
MapGet(m, k) == m[CHOOSE i \in 1..Len(m) : m[i].key = k].value
MapSet(m, k, v) ==
  IF MapHas(m, k)
  THEN [i \in 1..Len(m) |-> IF m[i].key = k THEN [key |-> k, value |-> v]
                                             ELSE m[i]]
  ELSE Append(m, [key |-> k, value |-> v])

Init ==
  /\ text \in Files
  /\ ast = ParseProgram(text)
  /\ cursor = 1
  /\ typeUsageCount = <<>>
  /\ typeDefinitions = <<>>
  /\ typeReferences = <<>>
  /\ reports = <<>>
  /\ phase = "traverse"
  /\ pass = 1
  /\ fixedName = ""

(***************************************************************************)
(* Traversal: the listeners are called when a node is entered, in document *)
(* order; nodes of other types have no listener.                           *)
(***************************************************************************)
Listened ==
  {"TSTypeAliasDeclaration", "TSInterfaceDeclaration", "TSTypeReference"}

\* The next node a listener is called for, 0 when the traversal is over.
NextVisit ==
  LET S == {n \in cursor..Len(ast) : ast[n].type \in Listened}
  IN IF S = {} THEN 0 ELSE CHOOSE n \in S : \A m \in S : n <= m

\* The alias listener without its early return for type parameters.
TSTypeAliasDeclarationAnyArity(node) ==
  /\ phase = "traverse"
  /\ node = NextVisit
  /\ ast[node].type = "TSTypeAliasDeclaration"
  /\ LET typeName == ast[node].name IN
     /\ typeDefinitions' = MapSet(typeDefinitions, typeName, node)
     /\ typeUsageCount' = IF ~MapHas(typeUsageCount, typeName)
                          THEN MapSet(typeUsageCount, typeName, 0)
                          ELSE typeUsageCount
  /\ cursor' = node + 1
  /\ UNCHANGED <<text, ast, typeReferences, reports, phase, pass, fixedName>>

TSTypeAliasDeclaration(node) ==
  /\ phase = "traverse"
  /\ node = NextVisit
  /\ ast[node].type = "TSTypeAliasDeclaration"
  /\ LET typeName == ast[node].name IN
     IF ast[node].typeParameters
     THEN UNCHANGED <<typeDefinitions, typeUsageCount>>
     ELSE /\ typeDefinitions' = MapSet(typeDefinitions, typeName, node)
          /\ typeUsageCount' = IF ~MapHas(typeUsageCount, typeName)
                               THEN MapSet(typeUsageCount, typeName, 0)
                               ELSE typeUsageCount
  /\ cursor' = node + 1
  /\ UNCHANGED <<text, ast, typeReferences, reports, phase, pass, fixedName>>

\* The interface listener setting the count to 0 without the has() test.
TSInterfaceDeclarationResettingCount(node) ==
  /\ phase = "traverse"
  /\ node = NextVisit
  /\ ast[node].type = "TSInterfaceDeclaration"
  /\ LET typeName == ast[node].name IN
     IF ast[node].typeParameters
     THEN UNCHANGED <<typeDefinitions, typeUsageCount>>
     ELSE /\ typeDefinitions' = MapSet(typeDefinitions, typeName, node)
          /\ typeUsageCount' = MapSet(typeUsageCount, typeName, 0)
  /\ cursor' = node + 1
  /\ UNCHANGED <<text, ast, typeReferences, reports, phase, pass, fixedName>>

TSInterfaceDeclaration(node) ==
  /\ phase = "traverse"
  /\ node = NextVisit
  /\ ast[node].type = "TSInterfaceDeclaration"
  /\ LET typeName == ast[node].name IN
     IF ast[node].typeParameters
     THEN UNCHANGED <<typeDefinitions, typeUsageCount>>
     ELSE /\ typeDefinitions' = MapSet(typeDefinitions, typeName, node)
          /\ typeUsageCount' = IF ~MapHas(typeUsageCount, typeName)
                               THEN MapSet(typeUsageCount, typeName, 0)
                               ELSE typeUsageCount
  /\ cursor' = node + 1
  /\ UNCHANGED <<text, ast, typeReferences, reports, phase, pass, fixedName>>

TSTypeReference(node) ==
  /\ phase = "traverse"
  /\ node = NextVisit
  /\ ast[node].type = "TSTypeReference"
  /\ IF ast[node].typeNameType = "Identifier"
     THEN LET typeName == ast[node].name
              currentCount == IF MapHas(typeUsageCount, typeName)
                              THEN MapGet(typeUsageCount, typeName) ELSE 0
              refs == IF ~MapHas(typeReferences, typeName)
                      THEN MapSet(typeReferences, typeName, <<>>)
                      ELSE typeReferences
          IN /\ typeUsageCount' =
                  MapSet(typeUsageCount, typeName, currentCount + 1)
             /\ typeReferences' =
                  MapSet(refs, typeName, Append(MapGet(refs, typeName), node))
     ELSE UNCHANGED <<typeUsageCount, typeReferences>>
  /\ cursor' = node + 1
  /\ UNCHANGED <<text, ast, typeDefinitions, reports, phase, pass, fixedName>>

(***************************************************************************)
(* The rule's helper functions.                                            *)
(***************************************************************************)
FunctionTypes ==
  {"FunctionDeclaration", "FunctionExpression", "ArrowFunctionExpression"}

Includes(arr, x) == \E i \in 1..Len(arr) : arr[i] = x

\* patternAncestors with the function declaration left out of the function
\* types: a destructured parameter of a declared function is not recognised.
RECURSIVE patternAncestorsNoDeclaration(_, _)
patternAncestorsNoDeclaration(parent, ancestor) ==
  IF ancestor = 0 THEN "none"
  ELSE IF ast[ancestor].type
            \in {"FunctionExpression", "ArrowFunctionExpression"}
  THEN IF Includes(ast[ancestor].params, parent) THEN "true" ELSE "false"
  ELSE IF ast[ancestor].type = "VariableDeclarator"
          /\ ast[ancestor].init # 0
          /\ ast[ast[ancestor].init].type
               \in {"FunctionExpression", "ArrowFunctionExpression"}
  THEN IF Includes(ast[ast[ancestor].init].params, parent)
       THEN "true" ELSE "false"
  ELSE patternAncestorsNoDeclaration(parent, ast[ancestor].parent)

\* The inner loop of isInFunctionParameter for a parameter pattern: "true" or
\* "false" when it returns, "none" when it runs out of ancestors.
RECURSIVE patternAncestors(_, _)
patternAncestors(parent, ancestor) ==
  IF ancestor = 0 THEN "none"
  ELSE IF ast[ancestor].type \in FunctionTypes
  THEN IF Includes(ast[ancestor].params, parent) THEN "true" ELSE "false"
  ELSE IF ast[ancestor].type = "VariableDeclarator"
          /\ ast[ancestor].init # 0
          /\ ast[ast[ancestor].init].type
               \in {"FunctionExpression", "ArrowFunctionExpression"}
  THEN IF Includes(ast[ast[ancestor].init].params, parent)
       THEN "true" ELSE "false"
  ELSE patternAncestors(parent, ast[ancestor].parent)

\* identifierAncestors that answers "true" at the first enclosing function
\* without looking the identifier up in its params.
RECURSIVE identifierAncestorsAnyFunction(_, _)
identifierAncestorsAnyFunction(parent, ancestor) ==
  IF ancestor = 0 THEN "none"
  ELSE IF ast[ancestor].type \in FunctionTypes THEN "true"
  ELSE IF ast[ancestor].type = "VariableDeclarator"
          /\ ast[ancestor].init # 0
          /\ ast[ast[ancestor].init].type
               \in {"FunctionExpression", "ArrowFunctionExpression"}
  THEN IF \E i \in 1..Len(ast[ast[ancestor].init].params) :
            ast[ast[ancestor].init].params[i] = parent
       THEN "true" ELSE "false"
  ELSE identifierAncestorsAnyFunction(parent, ast[ancestor].parent)

\* The inner loop of isInFunctionParameter for an identifier.
RECURSIVE identifierAncestors(_, _)
identifierAncestors(parent, ancestor) ==
  IF ancestor = 0 THEN "none"
  ELSE IF ast[ancestor].type \in FunctionTypes
  THEN IF \E i \in 1..Len(ast[ancestor].params) :
            ast[ancestor].params[i] = parent
       THEN "true" ELSE "false"
  ELSE IF ast[ancestor].type = "VariableDeclarator"
          /\ ast[ancestor].init # 0
          /\ ast[ast[ancestor].init].type
               \in {"FunctionExpression", "ArrowFunctionExpression"}
  THEN IF \E i \in 1..Len(ast[ast[ancestor].init].params) :
            ast[ast[ancestor].init].params[i] = parent
       THEN "true" ELSE "false"
  ELSE identifierAncestors(parent, ast[ancestor].parent)

\* The outer loop of isInFunctionParameter, from `current` outwards.
RECURSIVE annotationSearch(_)
annotationSearch(current) ==
  IF current = 0 THEN FALSE
  ELSE IF ast[current].type = "TSTypeAnnotation"
  THEN LET parent == ast[current].parent
           found ==
             IF parent # 0 /\ ast[parent].type \in {"ObjectPattern", "ArrayPattern"}
             THEN patternAncestors(parent, ast[parent].parent)
             ELSE IF parent # 0 /\ ast[parent].type = "Identifier"
             THEN identifierAncestors(parent, ast[parent].parent)
             ELSE "none"
       IN IF found = "none" THEN annotationSearch(ast[current].parent)
          ELSE found = "true"
  ELSE annotationSearch(ast[current].parent)

isInFunctionParameter(node) == annotationSearch(node)

\* isExported that knows only the default export.
isExportedDefaultOnly(node) ==
  LET parent == ast[node].parent IN
  parent # 0 /\ ast[parent].type = "ExportDefaultDeclaration"

isExported(node) ==
  LET parent == ast[node].parent IN
  \/ parent # 0 /\ ast[parent].type = "ExportNamedDeclaration"
  \/ parent # 0 /\ ast[parent].type = "ExportDefaultDeclaration"

RECURSIVE getTopLevelStatement(_, _)
getTopLevelStatement(node, programNode) ==
  IF ast[node].parent # 0 /\ ast[node].parent # programNode
  THEN getTopLevelStatement(ast[node].parent, programNode)
  ELSE node

\* sourceCode.getText(node)
getText(node) == SubSeq(text, ast[node].range[1] + 1, ast[node].range[2])

\* null and the empty string, which `!typeBody` does not tell apart
Null == <<>>

\* getTypeBody that takes the text of the declaration's id instead of its body.
getTypeBodyOfId(typeDefNode) ==
  IF ast[typeDefNode].type
       \in {"TSTypeAliasDeclaration", "TSInterfaceDeclaration"}
  THEN <<ast[typeDefNode].name>>
  ELSE Null

getTypeBody(typeDefNode) ==
  IF ast[typeDefNode].type = "TSTypeAliasDeclaration"
  THEN getText(ast[typeDefNode].typeAnnotation)
  ELSE IF ast[typeDefNode].type = "TSInterfaceDeclaration"
  THEN getText(ast[typeDefNode].body)
  ELSE Null

\* fixer.removeRange and fixer.replaceText
removeRange(range) == [range |-> range, text |-> <<>>]
replaceText(node, txt) == [range |-> ast[node].range, text |-> txt]

\* fix that replaces the reference node itself, whatever its parent is.
fixReplacingReference(typeDefNode, reference) ==
  LET programNode == 1
      typeDefStatement == getTopLevelStatement(typeDefNode, programNode)
      typeBody == getTypeBody(typeDefNode)
      end == ast[typeDefStatement].range[2]
      endPos == IF end < Len(text) /\ text[end + 1] = LF THEN end + 1
                ELSE IF end < Len(text) /\ text[end + 1] = CR
                THEN IF end + 1 < Len(text) /\ text[end + 2] = LF
                     THEN end + 2 ELSE end + 1
                ELSE end
  IN IF typeBody = Null THEN Null
     ELSE << removeRange(<<ast[typeDefStatement].range[1], endPos>>),
             replaceText(reference, typeBody) >>

\* The fix callback of the report: Null, or the two edits.
fix(typeDefNode, reference) ==
  LET programNode == 1
      typeDefStatement == getTopLevelStatement(typeDefNode, programNode)
      typeBody == getTypeBody(typeDefNode)
      typeReferenceNode == ast[reference].parent
      end == ast[typeDefStatement].range[2]
      endPos == IF end < Len(text) /\ text[end + 1] = LF THEN end + 1
                ELSE IF end < Len(text) /\ text[end + 1] = CR
                THEN IF end + 1 < Len(text) /\ text[end + 2] = LF
                     THEN end + 2 ELSE end + 1
                ELSE end
  IN IF typeBody = Null THEN Null
     ELSE IF typeReferenceNode = 0
             \/ ast[typeReferenceNode].type # "TSTypeAnnotation"
     THEN Null
     ELSE << removeRange(<<ast[typeDefStatement].range[1], endPos>>),
             replaceText(ast[typeReferenceNode].typeAnnotation, typeBody) >>

\* Reportable with the two tests for "exactly one" weakened to "at least one".
ReportableWhenUsed(typeName, count) ==
  /\ MapHas(typeDefinitions, typeName)
  /\ count >= 1
  /\ ~isExported(MapGet(typeDefinitions, typeName))
  /\ MapHas(typeReferences, typeName)
  /\ Len(MapGet(typeReferences, typeName)) >= 1
  /\ isInFunctionParameter(MapGet(typeReferences, typeName)[1])

\* The entry of typeUsageCount passes every `continue` of Program:exit.
Reportable(typeName, count) ==
  /\ MapHas(typeDefinitions, typeName)
  /\ count = 1
  /\ ~isExported(MapGet(typeDefinitions, typeName))
  /\ MapHas(typeReferences, typeName)
  /\ Len(MapGet(typeReferences, typeName)) = 1
  /\ isInFunctionParameter(MapGet(typeReferences, typeName)[1])

\* The calls of context.report for the entries of typeUsageCount, in order.
RECURSIVE reportsFor(_)
reportsFor(entries) ==
  IF entries = <<>> THEN <<>>
  ELSE LET typeName == Head(entries).key
           count == Head(entries).value
       IN (IF Reportable(typeName, count)
           THEN << [typeName |-> typeName,
                    node |-> MapGet(typeDefinitions, typeName),
                    fix |-> fix(MapGet(typeDefinitions, typeName),
                                MapGet(typeReferences, typeName)[1])] >>
           ELSE <<>>) \o reportsFor(Tail(entries))

ProgramExit ==
  /\ phase = "traverse"
  /\ NextVisit = 0
  /\ reports' = reportsFor(typeUsageCount)
  /\ phase' = "done"
  /\ UNCHANGED <<text, ast, cursor, typeUsageCount, typeDefinitions,
                 typeReferences, pass, fixedName>>

(***************************************************************************)
(* ESLint's fixer: the edits of one report are merged in range order and   *)
(* must not overlap; the merged edit is applied to the text and the result *)
(* is linted again by a fresh instance of the rule.                        *)
(***************************************************************************)
Sorted(edits) ==
  IF edits[1].range[1] < edits[2].range[1]
     \/ (edits[1].range[1] = edits[2].range[1]
         /\ edits[1].range[2] <= edits[2].range[2])
  THEN edits ELSE <<edits[2], edits[1]>>

Overlap(edits) == Sorted(edits)[2].range[1] < Sorted(edits)[1].range[2]

ApplyEdits(t, edits) ==
  LET a == Sorted(edits)[1]
      b == Sorted(edits)[2]
  IN SubSeq(t, 1, a.range[1]) \o a.text
       \o SubSeq(t, a.range[2] + 1, b.range[1]) \o b.text
       \o SubSeq(t, b.range[2] + 1, Len(t))

ApplyFix ==
  /\ phase = "done"
  /\ pass < MaxPasses
  /\ \E i \in 1..Len(reports) :
       /\ reports[i].fix # Null
       /\ ~Overlap(reports[i].fix)
       /\ text' = ApplyEdits(text, reports[i].fix)
       /\ fixedName' = reports[i].typeName
  /\ ast' = ParseProgram(text')
  /\ cursor' = 1
  /\ typeUsageCount' = <<>>
  /\ typeDefinitions' = <<>>
  /\ typeReferences' = <<>>
  /\ reports' = <<>>
  /\ phase' = "traverse"
  /\ pass' = pass + 1

Next ==
  \/ \E node \in 1..Len(ast) : TSTypeAliasDeclaration(node)
  \/ \E node \in 1..Len(ast) : TSInterfaceDeclaration(node)
  \/ \E node \in 1..Len(ast) : TSTypeReference(node)
  \/ ProgramExit
  \/ ApplyFix

Spec == Init /\ [][Next]_vars

\* Every text the fixer produces parses.
ParseOk == ast # <<>>

(***************************************************************************)
(* Vocabulary of the properties, read off the text and the tree without    *)
(* the rule's own helpers.                                                 *)
(***************************************************************************)
Declarations ==
  {d \in 1..Len(ast) :
     ast[d].type \in {"TSTypeAliasDeclaration", "TSInterfaceDeclaration"}}

\* The references to a name: the type references whose name is that identifier.
ReferencesTo(name) ==
  {r \in 1..Len(ast) : /\ ast[r].type = "TSTypeReference"
                       /\ ast[r].typeNameType = "Identifier"
                       /\ ast[r].name = name}

\* The declaration is the subject of an export clause: the word before it.
Exported(d) ==
  ast[d].range[1] > 0 /\ text[ast[d].range[1]] \in {"export", "default"}

Generic(d) == text[ast[d].range[1] + 3] = "<"

RECURSIVE Ancestors(_)
Ancestors(n) ==
  IF ast[n].parent = 0 THEN {}
  ELSE {ast[n].parent} \cup Ancestors(ast[n].parent)

\* a is the type annotation of a parameter of a function.
ParamAnnotation(a) ==
  /\ ast[a].type = "TSTypeAnnotation"
  /\ ast[ast[a].parent].type \in {"Identifier", "ObjectPattern", "ArrayPattern"}
  /\ LET owner == ast[a].parent
         fn == ast[owner].parent
     IN /\ ast[fn].type \in {"FunctionDeclaration", "FunctionExpression",
                             "ArrowFunctionExpression"}
        /\ \E i \in 1..Len(ast[fn].params) : ast[fn].params[i] = owner

\* The reference is itself the annotated type of a parameter.
IsParamAnnotation(r) == ParamAnnotation(ast[r].parent)

\* The reference lies somewhere inside the annotation of a parameter.
InParamAnnotation(r) == \E a \in Ancestors(r) : ParamAnnotation(a)

ReportsNaming(name) == {i \in 1..Len(reports) : reports[i].typeName = name}

\* The declaration of a name that is visited last among those without type
\* parameters, 0 when there is none.
LastDeclared(name) ==
  LET S == {d \in Declarations : ast[d].name = name /\ ~Generic(d)}
  IN IF S = {} THEN 0 ELSE CHOOSE d \in S : \A e \in S : e <= d

\* D has no type parameters, is not exported, and its name is referenced
\* exactly once, that reference being the annotation of a parameter.
SingleParamUse(d) ==
  /\ ~Generic(d)
  /\ ~Exported(d)
  /\ Cardinality(ReferencesTo(ast[d].name)) = 1
  /\ \A r \in ReferencesTo(ast[d].name) : IsParamAnnotation(r)

C2_NoDiagnosticWhenReused ==
  phase = "done" =>
    \A d \in Declarations :
      Cardinality(ReferencesTo(ast[d].name)) >= 2
        => ReportsNaming(ast[d].name) = {}

C2_Witness ==
  /\ phase = "done"
  /\ \E d \in Declarations :
       /\ ~Generic(d) /\ ~Exported(d)
       /\ Cardinality(ReferencesTo(ast[d].name)) >= 2
       /\ \E r \in ReferencesTo(ast[d].name) : IsParamAnnotation(r)

(***************************************************************************)
(* C3: no diagnostic is produced for an exported declaration, however      *)
(* often and wherever it is referenced.                                    *)
(***************************************************************************)
C3_ExportedNeverReported ==
  \A i \in 1..Len(reports) : ~Exported(reports[i].node)

C3_Witness ==
  /\ phase = "done"
  /\ \E d \in Declarations :
       /\ Exported(d) /\ ~Generic(d)
       /\ d = LastDeclared(ast[d].name)
       /\ Cardinality(ReferencesTo(ast[d].name)) = 1
       /\ \A r \in ReferencesTo(ast[d].name) : IsParamAnnotation(r)

(***************************************************************************)
(* C4: a declaration with type parameters is never recorded in             *)
(* typeDefinitions and no diagnostic is produced for it; when it is the    *)
(* only declaration of its name no diagnostic names it at all.             *)
(***************************************************************************)
C4_GenericNeverRecorded ==
  /\ \A i \in 1..Len(typeDefinitions) : ~Generic(typeDefinitions[i].value)
  /\ \A i \in 1..Len(reports) : ~Generic(reports[i].node)
  /\ \A d \in Declarations :
       Generic(d) /\ LastDeclared(ast[d].name) = 0
         => ReportsNaming(ast[d].name) = {}

C4_Witness ==
  /\ phase = "done"
  /\ \E d \in Declarations :
       /\ Generic(d) /\ LastDeclared(ast[d].name) = 0
       /\ Cardinality(ReferencesTo(ast[d].name)) = 1
       /\ \A r \in ReferencesTo(ast[d].name) : IsParamAnnotation(r)

(***************************************************************************)
(* C5: a declaration referenced exactly once, by a reference that no       *)
(* parameter's type annotation encloses, is named by no diagnostic; also   *)
(* when the annotated variable is inside a function body or is initialised *)
(* with a function.                                                        *)
(***************************************************************************)
C5_NoDiagnosticOutsideParameters ==
  phase = "done" =>
    \A d \in Declarations :
      /\ Cardinality(ReferencesTo(ast[d].name)) = 1
      /\ \A r \in ReferencesTo(ast[d].name) : ~InParamAnnotation(r)
      => ReportsNaming(ast[d].name) = {}

C5_Witness ==
  /\ phase = "done"
  /\ \E d \in Declarations :
       /\ ~Generic(d) /\ ~Exported(d)
       /\ Cardinality(ReferencesTo(ast[d].name)) = 1
       /\ \A r \in ReferencesTo(ast[d].name) :
            /\ ~InParamAnnotation(r)
            /\ \E a \in Ancestors(r) : ast[a].type = "FunctionDeclaration"

(***************************************************************************)
(* The text a fix is meant to produce: the original with the declaration   *)
(* and at most one line terminator after it removed, and the reference     *)
(* replaced by the text of the declaration's body.                         *)
(***************************************************************************)
TerminatorAt(o) ==
  IF o < Len(text) /\ text[o + 1] = LF THEN 1
  ELSE IF o + 1 < Len(text) /\ text[o + 1] = CR /\ text[o + 2] = LF THEN 2
  ELSE IF o < Len(text) /\ text[o + 1] = CR THEN 1
  ELSE 0

BodyOf(d) ==
  LET b == IF ast[d].type = "TSTypeAliasDeclaration"
           THEN ast[d].typeAnnotation ELSE ast[d].body
  IN SubSeq(text, ast[b].range[1] + 1, ast[b].range[2])

Inlined(d, r) ==
  LET from == ast[d].range[1]
      to == ast[d].range[2] + TerminatorAt(ast[d].range[2])
      piece(o) == IF o >= from /\ o < to THEN <<>>
                  ELSE IF o = ast[r].range[1] THEN BodyOf(d)
                  ELSE IF o > ast[r].range[1] /\ o < ast[r].range[2] THEN <<>>
                  ELSE <<text[o + 1]>>
  IN Flatten([i \in 1..Len(text) |-> piece(i - 1)])

(***************************************************************************)
(* C6: applying the fix of a diagnostic yields the original text with the  *)
(* span of the declaration and at most one line terminator after it        *)
(* removed and the reference replaced by the verbatim text of the          *)
(* declaration's body, every other character unchanged.                    *)
(***************************************************************************)
C6_FixInlinesTheDeclaration ==
  \A i \in 1..Len(reports) :
    reports[i].fix # Null /\ ~Overlap(reports[i].fix) =>
      \A r \in ReferencesTo(reports[i].typeName) :
        ApplyEdits(text, reports[i].fix) = Inlined(reports[i].node, r)

(***************************************************************************)
(* C7: linting the text obtained by applying the fix of a diagnostic for D *)
(* produces no diagnostic naming D.                                        *)
(***************************************************************************)
C7_FixedNameNotReportedAgain ==
  phase = "done" /\ pass > 1 => ReportsNaming(fixedName) = {}

C7_Witness == phase = "done" /\ pass > 1 /\ fixedName \in TypeNames

(***************************************************************************)
(* C8: the two edit ranges of a fix never overlap, also when the           *)
(* declaration is not a top-level statement and its reference lies in the  *)
(* same top-level statement.                                               *)
(***************************************************************************)
C8_EditsNeverOverlap ==
  \A i \in 1..Len(reports) :
    reports[i].fix # Null =>
      LET a == reports[i].fix[1].range
          b == reports[i].fix[2].range
      IN a[2] <= b[1] \/ b[2] <= a[1]

C10_LocatorFindsTheEnclosingAnnotation ==
  \A r \in 1..Len(ast) :
    ast[r].type = "TSTypeReference" =>
      (isInFunctionParameter(r) <=> InParamAnnotation(r))

(***************************************************************************)
(* Counts and reference lists as a reader of the Maps sees them, an absent *)
(* entry counting as 0, and the references the traversal has visited.      *)
(***************************************************************************)
UsageCount(name) ==
  IF MapHas(typeUsageCount, name) THEN MapGet(typeUsageCount, name) ELSE 0

ListLength(name) ==
  IF MapHas(typeReferences, name)
  THEN Len(MapGet(typeReferences, name)) ELSE 0

VisitedReferences(name) == {r \in ReferencesTo(name) : r < cursor}

\* Every name the tree mentions, "Pick" of Pick<P> included.
Names == TypeNames \cup {ast[n].name : n \in 1..Len(ast)}

CountIsVisits ==
  \A name \in Names :
    /\ UsageCount(name) = Cardinality(VisitedReferences(name))
    /\ UsageCount(name) = ListLength(name)

\* What one listener call, for the node NextVisit, may do to a name's entries.
VisitStep ==
  phase = "traverse" /\ phase' = "traverse" /\ NextVisit # 0
    /\ cursor' = NextVisit + 1 =>
    \A name \in Names :
      IF NextVisit \in ReferencesTo(name)
      THEN /\ UsageCount(name)' = UsageCount(name) + 1
           /\ ListLength(name)' = ListLength(name) + 1
      ELSE /\ UsageCount(name)' = UsageCount(name)
           /\ ListLength(name)' = ListLength(name)
           /\ MapHas(typeUsageCount, name) => MapHas(typeUsageCount, name)'
           /\ NextVisit \in Declarations /\ ast[NextVisit].name = name
                /\ ~Generic(NextVisit) => MapHas(typeUsageCount, name)'

(***************************************************************************)
(* C11: throughout a file's traversal, for every name the usage count      *)
(* equals the number of type-reference visits for that name so far and the *)
(* length of the name's reference list (absent counting as 0); a reference *)
(* visit adds exactly one to the count and one entry to the list, and a    *)
(* declaration visit creates the count as 0 only when the name has none,   *)
(* never changing an existing count.                                       *)
(***************************************************************************)
C11_CountEqualsReferenceVisits == [](CountIsVisits) /\ [][VisitStep]_vars

C11_Witness ==
  /\ phase = "traverse"
  /\ \E name \in TypeNames :
       /\ UsageCount(name) >= 1
       /\ MapHas(typeDefinitions, name)
       /\ \E r \in VisitedReferences(name) :
            r < MapGet(typeDefinitions, name)

====
